---- MODULE Spec2Model ----
(***************************************************************************)
(* memories-python-starter (examples/python-starter/app.py): an HTTP proxy *)
(* with four endpoints that validates a request, builds a JSON body,       *)
(* issues one authenticated POST to the upstream memories API and maps the *)
(* upstream's answer to a response.                                        *)
(*                                                                         *)
(* A Python str is a sequence of one-character strings, so that strip()    *)
(* is computed.  A JSON / Python value is a tagged record.  One request is *)
(* in flight at a time: the handlers share no state, and the only          *)
(* suspension point of a handler is the await of the upstream POST, which  *)
(* is where a handler's action is cut in two.                              *)
(***************************************************************************)
EXTENDS Integers, Sequences, FiniteSets, TLC

VARIABLES
  env,       \* os.environ: a function from the names that are set to str
  pc,        \* "idle" | "awaiting" (suspended in client.post) | "responded"
  req,       \* the inbound request being handled
  sent,      \* the upstream POSTs issued for req, in order
  upstream,  \* what came back from the upstream for req
  call,      \* the outcome of _sdk_post for req
  resp       \* the outbound HTTP response to req

vars == <<env, pc, req, sent, upstream, call, resp>>

----------------------------------------------------------------------------
(* Bounds of the model. *)

\* longest scope override drawn for the scope builder
MaxLen == 2

----------------------------------------------------------------------------
(* Python values. *)

\* Python's None where a str is expected.  The elements of a str are single
\* characters, except that a literal the code never takes apart stands as one
\* element; no str that is drawn or built equals None.
None == <<"None">>

\* the characters str.strip() removes
Whitespace == {" ", "\t", "\n", "\r"}

RECURSIVE lstrip(_, _)
lstrip(s, chars) ==
  IF s # <<>> /\ Head(s) \in chars THEN lstrip(Tail(s), chars) ELSE s

RECURSIVE rstrip(_, _)
rstrip(s, chars) ==
  IF s # <<>> /\ s[Len(s)] \in chars
    THEN rstrip(SubSeq(s, 1, Len(s) - 1), chars)
    ELSE s

\* str.strip()
strip(s) == rstrip(lstrip(s, Whitespace), Whitespace)

\* the text of a str, as a TLA+ string
RECURSIVE Text(_)
Text(s) == IF s = <<>> THEN "" ELSE Head(s) \o Text(Tail(s))

\* JSON values, which are also the Python values the handlers pass around
JNull == [tag |-> "null"]
JBool(b) == [tag |-> "bool", b |-> b]
JNum(n) == [tag |-> "num", n |-> n]
JStr(s) == [tag |-> "str", s |-> s]
JList(xs) == [tag |-> "list", items |-> xs]
JDict(f) == [tag |-> "dict", f |-> f]

\* Python truthiness: bool(v)
Truthy(v) ==
  CASE v.tag = "null" -> FALSE
    [] v.tag = "bool" -> v.b
    [] v.tag = "num" -> v.n # 0
    [] v.tag = "str" -> v.s # ""
    [] v.tag = "list" -> v.items # <<>>
    [] v.tag = "dict" -> DOMAIN v.f # {}

\* isinstance(v, dict)
IsDict(v) == v.tag = "dict"

\* k in d
Has(d, k) == k \in DOMAIN d.f

\* d.get(k, default)
Get(d, k, default) == IF k \in DOMAIN d.f THEN d.f[k] ELSE default

\* a or b
Or(a, b) == IF Truthy(a) THEN a ELSE b

----------------------------------------------------------------------------
(* Configuration and scope. *)

\* os.getenv(name): None when the variable is not set
getenv(name) == IF name \in DOMAIN env THEN env[name] ELSE None

\* os.getenv(name, "")
getenv_or_empty(name) == IF name \in DOMAIN env THEN env[name] ELSE <<>>

\* raise HTTPException(status_code=..., detail=...)
HTTPException(status_code, detail) ==
  [kind |-> "raise", status_code |-> status_code, detail |-> detail]

\* return value
Return(value) == [kind |-> "return", value |-> value]

\* the detail every HTTPException of the service carries
ErrorDetail(error) == JDict([ok |-> JBool(FALSE), error |-> error])

\* _required_env without the strip: a key of blanks passes
_required_env_unstripped(name) ==
  LET value == getenv_or_empty(name)
  IN IF value = <<>>
       THEN HTTPException(500, ErrorDetail(JDict(
              [type |-> JStr("validation_error"),
               code |-> JStr("MISSING_ENV"),
               message |-> JStr("Missing environment variable: " \o name)])))
       ELSE Return(value)

_required_env(name) ==
  LET value == strip(getenv_or_empty(name))
  IN IF value = <<>>
       THEN HTTPException(500, ErrorDetail(JDict(
              [type |-> JStr("validation_error"),
               code |-> JStr("MISSING_ENV"),
               message |-> JStr("Missing environment variable: " \o name)])))
       ELSE Return(value)

_optional(value) ==
  IF value = None
    THEN None
    ELSE LET trimmed == strip(value)
         IN IF trimmed # <<>> THEN trimmed ELSE None

\* the environment default taking precedence over the override
OptionalOr_env_first(a, b) ==
  IF _optional(b) # None THEN _optional(b) ELSE _optional(a)

\* _optional(a) or _optional(b), on str | None
OptionalOr(a, b) == IF _optional(a) # None THEN _optional(a) ELSE _optional(b)

ScopeEnv ==
  [tenantId |-> "MEMORIES_TENANT_ID",
   userId |-> "MEMORIES_USER_ID",
   projectId |-> "MEMORIES_PROJECT_ID"]

\* the three resolved_* values of _scope, by scope key
Resolved(tenant_id, user_id, project_id) ==
  [tenantId |-> OptionalOr(tenant_id, getenv(ScopeEnv.tenantId)),
   userId |-> OptionalOr(user_id, getenv(ScopeEnv.userId)),
   projectId |-> OptionalOr(project_id, getenv(ScopeEnv.projectId))]

_scope(tenant_id, user_id, project_id) ==
  LET resolved == Resolved(tenant_id, user_id, project_id)
  IN JDict([k \in {f \in DOMAIN resolved : resolved[f] # None} |->
              JStr(Text(resolved[k]))])

DefaultBaseUrl == <<"https://memories.sh">>

_base_url ==
  LET configured == _optional(getenv("MEMORIES_BASE_URL"))
  IN IF configured # None THEN configured ELSE DefaultBaseUrl

----------------------------------------------------------------------------
(* The upstream client, _sdk_post, in two parts around its await. *)

\* _sdk_post up to the await of client.post: the api key, the url and the
\* headers; either the HTTPException of _required_env or the POST to issue
_sdk_post_begin(endpoint, payload) ==
  LET api_key == _required_env("MEMORIES_API_KEY")
  IN IF api_key.kind = "raise"
       THEN api_key
       ELSE [kind |-> "post",
             url |-> Text(rstrip(_base_url, {"/"})) \o endpoint,
             headers |-> [authorization |-> "Bearer " \o Text(api_key.value),
                          content_type |-> "application/json"],
             json |-> payload]

\* what the awaited client.post can come back with: an httpx.HTTPError, or a
\* response with a status code and a body that is JSON or is not
TransportError(message) == [kind |-> "transport_error", message |-> message]
Response(status_code, body) ==
  [kind |-> "response", status_code |-> status_code, body |-> body]
NotJson == [tag |-> "notjson"]

\* except httpx.HTTPError as exc
TransportFailure(message) ==
  HTTPException(502, ErrorDetail(JDict(
    [type |-> JStr("network_error"),
     code |-> JStr("UPSTREAM_REQUEST_FAILED"),
     message |-> JStr(message)])))

\* except ValueError, from response.json()
InvalidJson ==
  HTTPException(502, ErrorDetail(JDict(
    [type |-> JStr("http_error"),
     code |-> JStr("INVALID_JSON"),
     message |-> JStr("Upstream returned non-JSON response")])))

\* isinstance(data, dict) and "ok" in data and "data" in data
IsEnvelope(data) == IsDict(data) /\ Has(data, "ok") /\ Has(data, "data")

\* the default error with a type outside the taxonomy
UnknownUpstreamError_untyped ==
  JDict([type |-> JStr("upstream_error"),
         code |-> JStr("UPSTREAM_ERROR"),
         message |-> JStr("Unknown upstream error")])

UnknownUpstreamError ==
  JDict([type |-> JStr("http_error"),
         code |-> JStr("UPSTREAM_ERROR"),
         message |-> JStr("Unknown upstream error")])

\* the status code inspected before the envelope's ok
EnvelopeResult_status_first(status_code, data) ==
  IF status_code >= 400 \/ ~Truthy(Get(data, "ok", JBool(FALSE)))
    THEN LET error == Or(Get(data, "error", JNull), UnknownUpstreamError)
         IN HTTPException(status_code, ErrorDetail(error))
    ELSE Return(Get(data, "data", JNull))

\* the body of the envelope branch
EnvelopeResult(status_code, data) ==
  IF ~Truthy(Get(data, "ok", JBool(FALSE)))
    THEN LET error == Or(Get(data, "error", JNull), UnknownUpstreamError)
         IN HTTPException(status_code, ErrorDetail(error))
    ELSE Return(Get(data, "data", JNull))

\* status_code > 400 in place of >= 400
RawResult_above_400(status_code, data) ==
  IF status_code > 400
    THEN HTTPException(status_code, ErrorDetail(JDict(
           [type |-> JStr("http_error"),
            code |-> JStr("HTTP_" \o ToString(status_code)),
            message |-> JStr("Upstream request failed"),
            details |-> data])))
    ELSE Return(data)

\* what follows the envelope branch
RawResult(status_code, data) ==
  IF status_code >= 400
    THEN HTTPException(status_code, ErrorDetail(JDict(
           [type |-> JStr("http_error"),
            code |-> JStr("HTTP_" \o ToString(status_code)),
            message |-> JStr("Upstream request failed"),
            details |-> data])))
    ELSE Return(data)

\* _sdk_post from the await on: the outcome of the call, given what came back
_sdk_post_end(up) ==
  IF up.kind = "transport_error" THEN TransportFailure(up.message)
  ELSE IF up.body = NotJson THEN InvalidJson
  ELSE IF IsEnvelope(up.body) THEN EnvelopeResult(up.status_code, up.body)
  ELSE RawResult(up.status_code, up.body)

----------------------------------------------------------------------------
(* The request boundary: the declared constraints of each handler's input. *)

MemoryTypes == {"rule", "decision", "fact", "note", "skill"}
Layers == {"rule", "working", "long_term"}
Modes == {"all", "working", "long_term", "rules_only"}
Strategies == {"baseline", "hybrid_graph"}
GraphDepths == {0, 1, 2}

\* a parameter of the request, or its declared default when it is not given
Param(p, k, default) == IF k \in DOMAIN p THEN p[k] ELSE default

\* a required str with min_length=1
BadRequiredStr(p, k) == k \notin DOMAIN p \/ Len(p[k]) < 1

\* ge=1 without le=50
BadLimit_no_upper(p, k) == k \in DOMAIN p /\ ~(p[k] >= 1)

\* an int with ge=1, le=50 and a default
BadLimit(p, k) == k \in DOMAIN p /\ ~(p[k] >= 1 /\ p[k] <= 50)

\* a Literal with a default, or an optional Literal
BadLiteral(p, k, allowed) == k \in DOMAIN p /\ p[k] \notin allowed

\* the fields of an AddMemoryRequest that fail its declaration
AddMemoryRequest_errors(p) ==
  {k \in {"content"} : BadRequiredStr(p, k)}
    \cup {k \in {"type"} : BadLiteral(p, k, MemoryTypes)}

\* the parameters of search_memories that fail their declaration
search_memories_errors(p) ==
  {k \in {"q"} : BadRequiredStr(p, k)}
    \cup {k \in {"limit"} : BadLimit(p, k)}
    \cup {k \in {"type"} : BadLiteral(p, k, MemoryTypes)}
    \cup {k \in {"layer"} : BadLiteral(p, k, Layers)}

\* the parameters of get_context that fail their declaration
get_context_errors(p) ==
  {k \in {"q"} : BadRequiredStr(p, k)}
    \cup {k \in {"mode"} : BadLiteral(p, k, Modes)}
    \cup {k \in {"strategy"} : BadLiteral(p, k, Strategies)}
    \cup {k \in {"limit", "graphLimit"} : BadLimit(p, k)}
    \cup {k \in {"graphDepth"} : BadLiteral(p, k, GraphDepths)}

----------------------------------------------------------------------------
(* The bodies the handlers forward and the results they reshape. *)

\* scope or None
ScopeOrNone(p) ==
  Or(_scope(Param(p, "tenantId", None), Param(p, "userId", None),
            Param(p, "projectId", None)),
     JNull)

\* [tag.strip() for tag in tags if tag.strip()]
RECURSIVE StripTags(_)
StripTags(tags) ==
  IF tags = <<>> THEN <<>>
  ELSE IF strip(Head(tags)) # <<>>
    THEN <<JStr(Text(strip(Head(tags))))>> \o StripTags(Tail(tags))
    ELSE StripTags(Tail(tags))

add_memory_body(p) ==
  JDict([content |-> JStr(Text(strip(p.content))),
         type |-> JStr(Param(p, "type", "note")),
         tags |-> JList(StripTags(Param(p, "tags", <<>>))),
         scope |-> ScopeOrNone(p)])

search_memories_body(p) ==
  JDict([query |-> JStr(Text(p.q)),
         limit |-> JNum(Param(p, "limit", 8)),
         scope |-> ScopeOrNone(p)]
        @@ [k \in {"type", "layer"} \cap DOMAIN p |-> JStr(p[k])])

get_context_body(p) ==
  JDict([query |-> JStr(Text(p.q)),
         mode |-> JStr(Param(p, "mode", "all")),
         strategy |-> JStr(Param(p, "strategy", "baseline")),
         limit |-> JNum(Param(p, "limit", 8)),
         graphDepth |-> JNum(Param(p, "graphDepth", 1)),
         graphLimit |-> JNum(Param(p, "graphLimit", 8)),
         scope |-> ScopeOrNone(p)])

\* result.get(k, default) if isinstance(result, dict) else default
ResultGet(result, k, default) ==
  IF IsDict(result) THEN Get(result, k, default) ELSE default

\* len(v) raises TypeError unless v is sized
HasLen(v) == v.tag \in {"list", "dict"}
PyLen(v) ==
  CASE v.tag = "list" -> Len(v.items)
    [] v.tag = "dict" -> Cardinality(DOMAIN v.f)

\* one entry per failing field, as the framework lists them
RECURSIVE ErrorList(_)
ErrorList(errors) ==
  IF errors = {} THEN <<>>
  ELSE LET k == CHOOSE e \in errors : TRUE
       IN <<JDict([loc |-> JStr(k)])>> \o ErrorList(errors \ {k})

\* the outbound responses: a handler's returned dict, the framework's answer
\* to an HTTPException, to a request that fails validation, and to any other
\* exception
JsonResponse(status, body) == [kind |-> "json", status |-> status, body |-> body]
HTTPExceptionResponse(exc) ==
  JsonResponse(exc.status_code, JDict([detail |-> exc.detail]))
ValidationErrorResponse(errors) ==
  JsonResponse(422, JDict([detail |-> JList(ErrorList(errors))]))
InternalServerError ==
  [kind |-> "text", status |-> 500, body |-> JStr("Internal Server Error")]

\* the part of each handler after its await, on the value _sdk_post returned
add_memory_return(result) ==
  JsonResponse(200, JDict([ok |-> JBool(TRUE), result |-> result]))

search_memories_return(result) ==
  LET memories == ResultGet(result, "memories", JList(<<>>))
  IN IF HasLen(memories)
       THEN JsonResponse(200, JDict([ok |-> JBool(TRUE),
                                     count |-> JNum(PyLen(memories)),
                                     memories |-> memories]))
       ELSE InternalServerError

get_context_return(result) ==
  JsonResponse(200, JDict([ok |-> JBool(TRUE),
                           rules |-> ResultGet(result, "rules", JList(<<>>)),
                           memories |-> ResultGet(result, "memories", JList(<<>>)),
                           trace |-> ResultGet(result, "trace", JNull)]))

----------------------------------------------------------------------------
(* The inputs: environments, requests and upstream answers. *)

\* every str of at most n characters over an alphabet
StrUpTo(alphabet, n) == UNION {[1..m -> alphabet] : m \in 0..n}

\* a function from one name, or from none, to each value of a set
Maybe(name, values) == {<<>>} \cup {name :> v : v \in values}

Envs ==
  {k @@ b @@ s :
     k \in Maybe("MEMORIES_API_KEY", {<<>>, <<" ">>, <<" ", "k">>}),
     b \in Maybe("MEMORIES_BASE_URL", {<<"http://up", "/">>}),
     s \in {<<>>, [MEMORIES_TENANT_ID |-> <<" ", "e">>,
                   MEMORIES_USER_ID |-> <<" ">>]}}

AddRequests ==
  {[content |-> <<"a">>],
   [content |-> <<" ", "a">>, type |-> "fact",
    tags |-> << <<" ", "x">>, <<" ">> >>, tenantId |-> <<" ", "t">>],
   [content |-> <<" ">>],
   [content |-> <<>>],
   [tags |-> <<>>],
   [content |-> <<"a">>, type |-> "bogus"]}

SearchRequests ==
  {[q |-> <<"t">>],
   [q |-> <<"t">>, limit |-> 1],
   [q |-> <<"t">>, limit |-> 50],
   [q |-> <<"t">>, type |-> "note", layer |-> "working", userId |-> <<"u">>],
   [q |-> <<"t">>, limit |-> 0],
   [q |-> <<"t">>, limit |-> 51],
   [q |-> <<>>],
   [limit |-> 8],
   [q |-> <<"t">>, type |-> "bogus"],
   [q |-> <<"t">>, layer |-> "bogus"]}

ContextRequests ==
  {[q |-> <<"t">>],
   [q |-> <<"t">>, mode |-> "rules_only", strategy |-> "hybrid_graph",
    limit |-> 50, graphDepth |-> 2, graphLimit |-> 1, projectId |-> <<"p">>],
   [q |-> <<>>],
   [limit |-> 8],
   [q |-> <<"t">>, mode |-> "bogus"],
   [q |-> <<"t">>, strategy |-> "bogus"],
   [q |-> <<"t">>, limit |-> 0],
   [q |-> <<"t">>, limit |-> 51],
   [q |-> <<"t">>, graphDepth |-> 3],
   [q |-> <<"t">>, graphLimit |-> 0],
   [q |-> <<"t">>, graphLimit |-> 51]}

Statuses == {200, 400, 503}

OkVals == {JBool(TRUE), JBool(FALSE), JNull, JNum(1)}

OneMemory == JList(<<JDict([id |-> JNum(1)])>>)

DataVals ==
  {JNull, JDict([x |-> JNum(1)]), JDict([memories |-> OneMemory]),
   JDict([memories |-> JNum(5)])}

ErrVals ==
  {JNull, JDict(<<>>),
   JDict([type |-> JStr("t"), code |-> JStr("c"), message |-> JStr("m")])}

\* the JSON bodies an upstream may answer with: every mapping over the keys
\* ok, data and error, some mappings without them, and some non-mappings
Bodies ==
  {JDict(o @@ d @@ e) :
     o \in Maybe("ok", OkVals), d \in Maybe("data", DataVals),
     e \in Maybe("error", ErrVals)}
  \cup {JDict([detail |-> JStr("down")]),
        JDict([memories |-> OneMemory]),
        JDict([rules |-> OneMemory, trace |-> JDict([x |-> JNum(1)])]),
        JNull, JList(<<>>), JStr("x")}

Upstreams ==
  {TransportError(m) : m \in {"timed out", "connection refused"}}
  \cup {Response(st, b) : st \in Statuses, b \in Bodies \cup {NotJson}}

----------------------------------------------------------------------------
(* The state machine. *)

Nothing == [kind |-> "none"]

Init ==
  /\ env \in Envs
  /\ pc = "idle"
  /\ req = [endpoint |-> "none", params |-> <<>>]
  /\ sent = <<>>
  /\ upstream = Nothing
  /\ call = Nothing
  /\ resp = Nothing

\* the framework answers a request that fails validation; the handler does
\* not run
Reject(errors) ==
  /\ resp' = ValidationErrorResponse(errors)
  /\ pc' = "responded"
  /\ sent' = <<>>
  /\ upstream' = Nothing
  /\ call' = Nothing

\* a handler from its first line to the await inside _sdk_post, or to the
\* HTTPException raised before it
Forward(path, body) ==
  LET begun == _sdk_post_begin(path, body)
  IN /\ upstream' = Nothing
     /\ IF begun.kind = "raise"
          THEN /\ call' = begun
               /\ resp' = HTTPExceptionResponse(begun)
               /\ sent' = <<>>
               /\ pc' = "responded"
          ELSE /\ call' = Nothing
               /\ resp' = Nothing
               /\ sent' = <<begun>>
               /\ pc' = "awaiting"

health ==
  /\ pc # "awaiting"
  /\ req' = [endpoint |-> "health", params |-> <<>>]
  /\ resp' = JsonResponse(200, JDict([ok |-> JBool(TRUE),
                                      service |-> JStr("memories-python-starter"),
                                      baseUrl |-> JStr(Text(_base_url))]))
  /\ pc' = "responded"
  /\ sent' = <<>>
  /\ upstream' = Nothing
  /\ call' = Nothing
  /\ UNCHANGED env

add_memory(p) ==
  /\ pc # "awaiting"
  /\ req' = [endpoint |-> "add_memory", params |-> p]
  /\ IF AddMemoryRequest_errors(p) # {}
       THEN Reject(AddMemoryRequest_errors(p))
       ELSE Forward("/api/sdk/v1/memories/add", add_memory_body(p))
  /\ UNCHANGED env

search_memories(p) ==
  /\ pc # "awaiting"
  /\ req' = [endpoint |-> "search_memories", params |-> p]
  /\ IF search_memories_errors(p) # {}
       THEN Reject(search_memories_errors(p))
       ELSE Forward("/api/sdk/v1/memories/search", search_memories_body(p))
  /\ UNCHANGED env

get_context(p) ==
  /\ pc # "awaiting"
  /\ req' = [endpoint |-> "get_context", params |-> p]
  /\ IF get_context_errors(p) # {}
       THEN Reject(get_context_errors(p))
       ELSE Forward("/api/sdk/v1/context/get", get_context_body(p))
  /\ UNCHANGED env

\* the rest of the handler of req, on the value _sdk_post returned
HandlerReturn(result) ==
  CASE req.endpoint = "add_memory" -> add_memory_return(result)
    [] req.endpoint = "search_memories" -> search_memories_return(result)
    [] req.endpoint = "get_context" -> get_context_return(result)

\* a transport failure answered by issuing the POST once more
upstream_responds_retry(up) ==
  /\ pc = "awaiting"
  /\ IF up.kind = "transport_error" /\ Len(sent) < 2
       THEN /\ sent' = Append(sent, sent[1])
            /\ UNCHANGED <<pc, upstream, call, resp>>
       ELSE /\ upstream' = up
            /\ call' = _sdk_post_end(up)
            /\ resp' = IF _sdk_post_end(up).kind = "raise"
                         THEN HTTPExceptionResponse(_sdk_post_end(up))
                         ELSE HandlerReturn(_sdk_post_end(up).value)
            /\ pc' = "responded"
            /\ UNCHANGED sent
  /\ UNCHANGED <<env, req>>

\* the awaited client.post comes back: the rest of _sdk_post and of the
\* handler run to the response
upstream_responds(up) ==
  /\ pc = "awaiting"
  /\ upstream' = up
  /\ call' = _sdk_post_end(up)
  /\ resp' = IF _sdk_post_end(up).kind = "raise"
               THEN HTTPExceptionResponse(_sdk_post_end(up))
               ELSE HandlerReturn(_sdk_post_end(up).value)
  /\ pc' = "responded"
  /\ UNCHANGED <<env, req, sent>>

Next ==
  \/ health
  \/ \E p \in AddRequests : add_memory(p)
  \/ \E p \in SearchRequests : search_memories(p)
  \/ \E p \in ContextRequests : get_context(p)
  \/ \E up \in Upstreams : upstream_responds(up)

Spec == Init /\ [][Next]_vars

----------------------------------------------------------------------------
(* The scope builder on every override of at most MaxLen characters. *)

ScopeEnvs ==
  {[MEMORIES_API_KEY |-> <<"k">>] @@ t @@ u @@ p :
     t \in Maybe("MEMORIES_TENANT_ID", {<<" ">>, <<" ", "e">>}),
     u \in Maybe("MEMORIES_USER_ID", {<<" ">>, <<" ", "e">>}),
     p \in Maybe("MEMORIES_PROJECT_ID", {<<" ">>, <<" ", "e">>})}

ScopeRequests ==
  {[q |-> <<"t">>] @@ t @@ u @@ p :
     t \in Maybe("tenantId", StrUpTo({" ", "a"}, MaxLen)),
     u \in Maybe("userId", StrUpTo({" ", "a"}, MaxLen)),
     p \in Maybe("projectId", StrUpTo({" ", "a"}, MaxLen))}

InitScope ==
  /\ env \in ScopeEnvs
  /\ pc = "idle"
  /\ req = [endpoint |-> "none", params |-> <<>>]
  /\ sent = <<>>
  /\ upstream = Nothing
  /\ call = Nothing
  /\ resp = Nothing

NextScope == \E p \in ScopeRequests : search_memories(p)

SpecScope == InitScope /\ [][NextScope]_vars

----------------------------------------------------------------------------
(* The claims. *)

\* the error object of a raised HTTPException
ErrorOf(exc) == exc.detail.f.error

\* the declared constraints of the three handlers, as the claims list them
InEnum(p, k, allowed) == k \in DOMAIN p => p[k] \in allowed
InRange(p, k) == k \in DOMAIN p => p[k] \in 1..50
NonEmpty(p, k) == k \in DOMAIN p /\ p[k] # <<>>

PassesValidation ==
  LET p == req.params
  IN CASE req.endpoint = "add_memory" ->
            /\ NonEmpty(p, "content")
            /\ InEnum(p, "type", {"rule", "decision", "fact", "note", "skill"})
       [] req.endpoint = "search_memories" ->
            /\ NonEmpty(p, "q")
            /\ InRange(p, "limit")
            /\ InEnum(p, "type", {"rule", "decision", "fact", "note", "skill"})
            /\ InEnum(p, "layer", {"rule", "working", "long_term"})
       [] req.endpoint = "get_context" ->
            /\ NonEmpty(p, "q")
            /\ InEnum(p, "mode", {"all", "working", "long_term", "rules_only"})
            /\ InEnum(p, "strategy", {"baseline", "hybrid_graph"})
            /\ InRange(p, "limit")
            /\ InEnum(p, "graphDepth", {0, 1, 2})
            /\ InRange(p, "graphLimit")
       [] OTHER -> TRUE

Proxied == req.endpoint \in {"add_memory", "search_memories", "get_context"}

\* MEMORIES_API_KEY is absent, or empty after trimming
KeyMissing ==
  "MEMORIES_API_KEY" \notin DOMAIN env
    \/ \A i \in 1..Len(env["MEMORIES_API_KEY"]) :
         env["MEMORIES_API_KEY"][i] \in Whitespace

\* the upstream answered with JSON
AnsweredJson == upstream.kind = "response" /\ upstream.body # NotJson

\* the parsed upstream body is a mapping holding both an ok and a data key
EnvelopeShaped ==
  /\ AnsweredJson
  /\ upstream.body.tag = "dict"
  /\ {"ok", "data"} \subseteq DOMAIN upstream.body.f

TCM == JDict([type |-> JStr("t"), code |-> JStr("c"), message |-> JStr("m")])

\* C1 (as claimed): every outbound response, of every endpoint and every
\* outcome, carries a boolean ok at the top level of its JSON body.
C1_EveryResponseHasTopLevelOk ==
  pc = "responded" =>
    /\ resp.kind = "json"
    /\ IsDict(resp.body)
    /\ Has(resp.body, "ok")
    /\ resp.body.f.ok.tag = "bool"

\* C2 (as claimed): when the upstream answers 200 with a body whose ok is
\* false and whose error is {type, code, message}, _sdk_post fails, with
\* exactly that error object and the status 200.
C2_OkFalseWithErrorFails ==
  (/\ AnsweredJson
   /\ upstream.status_code = 200
   /\ IsDict(upstream.body)
   /\ Get(upstream.body, "ok", JNull) = JBool(FALSE)
   /\ Get(upstream.body, "error", JNull) = TCM)
  => /\ call.kind = "raise"
     /\ call.status_code = 200
     /\ ErrorOf(call) = TCM

\* C3: a request issues at most one upstream POST, and once that POST has
\* failed at the transport level the request has ended, with 502,
\* network_error / UPSTREAM_REQUEST_FAILED, and still one POST.
C3_SinglePostNoRetry ==
  /\ Len(sent) <= 1
  /\ upstream.kind = "transport_error" =>
       /\ pc = "responded"
       /\ Len(sent) = 1
       /\ resp.kind = "json"
       /\ resp.status = 502
       /\ ErrorOf(call).f.type = JStr("network_error")
       /\ ErrorOf(call).f.code = JStr("UPSTREAM_REQUEST_FAILED")
       /\ resp.body = JDict([detail |-> call.detail])

C3_Witness ==
  /\ upstream = TransportError("timed out")
  /\ resp.status = 502
  /\ Len(sent) = 1

\* C4: a request to add_memory, search_memories or get_context whose input
\* fails validation is answered with the input-validation error and no
\* upstream call is made for it; a call is made only for an input that
\* passes.
C4_ValidationBeforeUpstream ==
  /\ (Proxied /\ ~PassesValidation) =>
       /\ pc = "responded"
       /\ resp.status = 422
       /\ sent = <<>>
       /\ upstream = Nothing
  /\ sent # <<>> => (Proxied /\ PassesValidation)

C4_Witness ==
  /\ req.endpoint = "get_context"
  /\ "graphLimit" \in DOMAIN req.params
  /\ req.params.graphLimit = 51
  /\ resp.status = 422
  /\ sent = <<>>

\* C5: with MEMORIES_API_KEY absent or empty after trimming, health answers
\* 200 with ok true, every validated request to the three other endpoints
\* answers 500 with validation_error / MISSING_ENV, and no upstream POST is
\* issued.
C5_MissingKeyAtPointOfUse ==
  KeyMissing =>
    /\ sent = <<>>
    /\ (pc = "responded" /\ req.endpoint = "health") =>
         /\ resp.status = 200
         /\ resp.body.f.ok = JBool(TRUE)
    /\ (pc = "responded" /\ Proxied /\ PassesValidation) =>
         /\ resp.status = 500
         /\ call.kind = "raise"
         /\ call.status_code = 500
         /\ ErrorOf(call).f.type = JStr("validation_error")
         /\ ErrorOf(call).f.code = JStr("MISSING_ENV")
         /\ resp.body = JDict([detail |-> call.detail])

C5_Witness ==
  /\ "MEMORIES_API_KEY" \in DOMAIN env
  /\ env["MEMORIES_API_KEY"] = <<" ">>
  /\ req.endpoint = "search_memories"
  /\ resp.status = 500
  /\ ErrorOf(call).f.code = JStr("MISSING_ENV")

\* C6: when the parsed upstream body is not a mapping holding both ok and
\* data, _sdk_post fails for a status >= 400, with that status, http_error,
\* HTTP_<status> and the raw body as details, and returns the raw body
\* unchanged otherwise.
C6_NonEnvelopeByStatus ==
  (AnsweredJson /\ ~EnvelopeShaped) =>
    IF upstream.status_code >= 400
      THEN /\ call.kind = "raise"
           /\ call.status_code = upstream.status_code
           /\ ErrorOf(call).f.type = JStr("http_error")
           /\ ErrorOf(call).f.code =
                JStr("HTTP_" \o ToString(upstream.status_code))
           /\ ErrorOf(call).f.details = upstream.body
      ELSE call = Return(upstream.body)

C6_Witness ==
  /\ upstream = Response(503, JDict([detail |-> JStr("down")]))
  /\ call.kind = "raise"
  /\ ErrorOf(call).f.code = JStr("HTTP_503")
  /\ ErrorOf(call).f.details = JDict([detail |-> JStr("down")])

\* the scope object of the forwarded body, as a mapping; scope is null when
\* the builder yields no key
ForwardedScope ==
  IF IsDict(sent[1].json.f.scope) THEN sent[1].json.f.scope.f ELSE <<>>

\* what C7 says a scope key holds: the trimmed override if that is not
\* empty, else the trimmed environment default; empty when it is omitted
ScopeExpected(k) ==
  LET override == IF k \in DOMAIN req.params THEN strip(req.params[k]) ELSE <<>>
      default == IF ScopeEnv[k] \in DOMAIN env THEN strip(env[ScopeEnv[k]]) ELSE <<>>
  IN IF override # <<>> THEN override ELSE default

\* C7: each of tenantId, userId and projectId holds the trimmed override if
\* that is not empty, else the trimmed environment default if that is not
\* empty, and is omitted from the scope otherwise.
C7_ScopePrecedence ==
  sent # <<>> =>
    \A k \in {"tenantId", "userId", "projectId"} :
      IF ScopeExpected(k) = <<>>
        THEN k \notin DOMAIN ForwardedScope
        ELSE /\ k \in DOMAIN ForwardedScope
             /\ ForwardedScope[k] = JStr(Text(ScopeExpected(k)))

C7_Witness ==
  /\ sent # <<>>
  /\ "tenantId" \in DOMAIN req.params
  /\ req.params.tenantId = <<" ">>
  /\ "MEMORIES_TENANT_ID" \in DOMAIN env
  /\ env["MEMORIES_TENANT_ID"] = <<" ", "e">>
  /\ "userId" \in DOMAIN req.params
  /\ req.params.userId = <<" ", "a">>
  /\ "MEMORIES_USER_ID" \in DOMAIN env
  /\ env["MEMORIES_USER_ID"] = <<" ", "e">>
  /\ "projectId" \notin DOMAIN req.params
  /\ "MEMORIES_PROJECT_ID" \notin DOMAIN env
  /\ ForwardedScope = [tenantId |-> JStr("e"), userId |-> JStr("a")]

\* the tags C8 expects: each trimmed, the empty ones removed, in order
TagsExpected(tags) ==
  LET kept == SelectSeq([i \in 1..Len(tags) |-> strip(tags[i])],
                        LAMBDA t : t # <<>>)
  IN [i \in 1..Len(kept) |-> JStr(Text(kept[i]))]

\* C8 (as claimed): the body forwarded for a validated AddMemoryRequest has
\* the trimmed content, which is not empty, the tags trimmed with the empty
\* ones removed, and the given type, or note.
C8_ForwardedAddBody ==
  (req.endpoint = "add_memory" /\ sent # <<>>) =>
    LET p == req.params
        body == sent[1].json.f
    IN /\ body.content = JStr(Text(strip(p.content)))
       /\ body.content # JStr("")
       /\ body.tags =
            JList(TagsExpected(IF "tags" \in DOMAIN p THEN p.tags ELSE <<>>))
       /\ body.type = JStr(IF "type" \in DOMAIN p THEN p.type ELSE "note")

\* the error the code falls back on when the envelope reports none
FallbackError ==
  JDict([type |-> JStr("http_error"),
         code |-> JStr("UPSTREAM_ERROR"),
         message |-> JStr("Unknown upstream error")])

\* the envelope carries an error that is not null and not empty
ErrorReported ==
  /\ "error" \in DOMAIN upstream.body.f
  /\ upstream.body.f.error \notin {JNull, JDict(<<>>), JStr(""), JList(<<>>)}

Taxonomy == {"validation_error", "network_error", "http_error"}

\* an error object with type, code and message, its type in the taxonomy
Structured(error) ==
  /\ IsDict(error)
  /\ {"type", "code", "message"} \subseteq DOMAIN error.f
  /\ error.f.type.tag = "str"
  /\ error.f.type.s \in Taxonomy

\* the failure is the one an envelope reports: ok is false (or falsy)
EnvelopeFailure == EnvelopeShaped /\ call.kind = "raise"

====
